---- MODULE Spec2Model ----
(***************************************************************************)
(* LiteX vendor toolchain adapters (Anlogic Tang Dinasty, Microsemi Libero *)
(* SoC, OSFPGA, QuickLogic Symbiflow): the period / false-path constraint  *)
(* bookkeeping of a toolchain object, the text emitters, the step sequence *)
(* of build(), and the clock outputs of the Efinix PLL helper.             *)
(*                                                                         *)
(* Periods are fixed-point numbers: an integer p stands for p / SubPs      *)
(* picoseconds, so that math.floor(period*1e3)/1e3 is FloorPs.  The binary *)
(* representation error of a Python float is not modelled.                 *)
(***************************************************************************)
EXTENDS Integers, Sequences, FiniteSets, TLC

VARIABLES
    kind,         \* the adapter class of the toolchain objects
    clocks,       \* clocks[t]: self.clocks of toolchain t, a dict in insertion order
    false_paths,  \* false_paths[t]: self.false_paths of toolchain t, a set of pairs
    attr,         \* attr[c]: clk.attr of clock signal c
    call,         \* the last accumulator call: its arguments and the exception it raised
    ncalls,       \* the number of constraint calls the program has made
    todo,         \* todo[t]: the constraint calls still to be made on toolchain t
    failed,       \* failed[t]: some call of the script raised on toolchain t
    build,        \* the state of the build() invocation and of its environment
    pll           \* an EFINIXPLL object, its block and the toolchain lists it appends to

vars == <<kind, clocks, false_paths, attr, call, ncalls, todo, failed, build, pll>>

----------------------------------------------------------------------------
(* Bounds *)

NClocks == 2      \* clock signals, identified by their duid 1..NClocks
MaxPeriod == 4    \* largest requested period, in units of 1/SubPs ps
SubPs == 2        \* sub-picosecond steps per picosecond
MaxCalls == 4     \* constraint calls the program makes on a toolchain
MaxScript == 3    \* constraint calls in one script (permutation runs)
MaxPins == 2      \* pins of the widest signal of a pin table
MaxRuns == 2      \* executions of the build program
MaxTime == 2      \* distinct readings of the wall clock
MaxPllCalls == 6  \* create_clkout calls made on one PLL

Adapters == {"Anlogic", "OSFPGA", "Libero", "QuickLogic"}
WithPeriod == {"Anlogic", "OSFPGA", "Libero"}     \* classes defining add_period_constraint
WithFalsePath == {"Libero"}                       \* classes defining add_false_path_constraint
WithIo == {"Anlogic", "Libero", "QuickLogic"}     \* modules with an IO-constraint emitter
Clocks == 1..NClocks
Periods == 1..MaxPeriod
Toolchains == {1, 2}
None == "None"

duid(clk) == clk

----------------------------------------------------------------------------
(* Python dict, kept as the sequence of its (key, value) items in insertion order *)

DictKeys(d) == {d[i][1] : i \in 1..Len(d)}

DictHas(d, k) == k \in DictKeys(d)

DictGet(d, k) == LET i == CHOOSE j \in 1..Len(d) : d[j][1] = k IN d[i][2]

DictSet(d, k, v) ==
    IF DictHas(d, k)
    THEN [i \in 1..Len(d) |-> IF d[i][1] = k THEN <<k, v>> ELSE d[i]]
    ELSE Append(d, <<k, v>>)

DictItems(d) == {d[i] : i \in 1..Len(d)}

----------------------------------------------------------------------------
(* Constraint accumulator *)

\* math.floor(period*1e3)/1e3
FloorPs(period) == (period \div SubPs) * SubPs

\* the period an adapter records for a request
RecordedPeriod(k, period) == IF k = "Libero" THEN period ELSE FloorPs(period)

AlwaysOverwrite(k, d, clk, period) == FALSE

\* the guard of the raise in add_period_constraint
PeriodConflict(k, d, clk, period) ==
    DictHas(d, clk) /\ RecordedPeriod(k, period) # DictGet(d, clk)

\* the body of add_period_constraint(platform, clk, period) on toolchain t
AddPeriod(t, clk, period) ==
    /\ kind \in WithPeriod
    /\ attr' = IF kind = "Libero" THEN attr
               ELSE [attr EXCEPT ![clk] = @ \cup {"keep"}]
    /\ IF PeriodConflict(kind, clocks[t], clk, period)
       THEN /\ call' = [op |-> "period", t |-> t, a |-> clk, b |-> period,
                        exc |-> "ValueError"]
            /\ clocks' = clocks
       ELSE /\ call' = [op |-> "period", t |-> t, a |-> clk, b |-> period,
                        exc |-> None]
            /\ clocks' = [clocks EXCEPT ![t] =
                            DictSet(@, clk, RecordedPeriod(kind, period))]
    /\ UNCHANGED <<kind, false_paths, build, pll>>

\* a call of add_period_constraint by the program
add_period_constraint(t, clk, period) ==
    /\ ncalls < MaxCalls
    /\ AddPeriod(t, clk, period)
    /\ ncalls' = ncalls + 1
    /\ UNCHANGED <<todo, failed>>

IgnoreReverse(fp, from_, to) == fp \cup {<<from_, to>>}

\* the body of add_false_path_constraint
FalsePathsAfter(fp, from_, to) ==
    IF <<to, from_>> \notin fp THEN fp \cup {<<from_, to>>} ELSE fp

\* the whole of add_false_path_constraint(platform, from_, to) on toolchain t
AddFalsePath(t, from_, to) ==
    /\ kind \in WithFalsePath
    /\ false_paths' = [false_paths EXCEPT ![t] = FalsePathsAfter(@, from_, to)]
    /\ call' = [op |-> "false_path", t |-> t, a |-> from_, b |-> to, exc |-> None]
    /\ UNCHANGED <<kind, clocks, attr, build, pll>>

\* a call of add_false_path_constraint by the program
add_false_path_constraint(t, from_, to) ==
    /\ ncalls < MaxCalls
    /\ AddFalsePath(t, from_, to)
    /\ ncalls' = ncalls + 1
    /\ UNCHANGED <<todo, failed>>

NoCall == [op |-> None, t |-> 0, a |-> 0, b |-> 0, exc |-> None]

NoBuild == [pc |-> 0]

NoPll == [cls |-> None]

\* __init__ of the toolchain classes
InitToolchains ==
    /\ clocks = [t \in Toolchains |-> <<>>]
    /\ false_paths = [t \in Toolchains |-> {}]
    /\ attr = [c \in Clocks |-> {}]
    /\ call = NoCall

Init ==
    /\ kind \in WithPeriod
    /\ InitToolchains
    /\ ncalls = 0
    /\ todo = [t \in Toolchains |-> {}]
    /\ failed = [t \in Toolchains |-> FALSE]
    /\ build = NoBuild
    /\ pll = NoPll

Next ==
    \/ \E clk \in Clocks, period \in Periods : add_period_constraint(1, clk, period)
    \/ \E from_ \in Clocks, to \in Clocks : add_false_path_constraint(1, from_, to)

Spec == Init /\ [][Next]_vars

----------------------------------------------------------------------------
(* Claims about the constraint accumulator, checked under Spec *)

\* the period recorded for the clock of the call before the step
RecordedBefore == DictGet(clocks[call'.t], call'.a)

\* C2: a call on an already constrained clock whose period differs from the
\* recorded one after rounding both down to 0.001 ns raises ValueError, and
\* the failed call changes no recorded period of any clock.
C2_ConflictRaisesAndKeeps ==
    [][(/\ call'.op = "period"
        /\ DictHas(clocks[call'.t], call'.a)
        /\ FloorPs(call'.b) # FloorPs(RecordedBefore))
       => (call'.exc = "ValueError" /\ clocks' = clocks)]_vars

C2_Witness ==
    /\ call.op = "period"
    /\ call.exc = "ValueError"
    /\ DictHas(clocks[call.t], call.a)
    /\ FloorPs(call.b) # FloorPs(DictGet(clocks[call.t], call.a))
    /\ Len(clocks[call.t]) = NClocks

\* C3: on an adapter with add_period_constraint, a second call on a clock
\* with a period that rounds down to the same 0.001 ns value as the recorded
\* one succeeds, and the recorded period is the rounded-down value.
C3_SameRoundedAccepted ==
    [][(/\ call'.op = "period"
        /\ DictHas(clocks[call'.t], call'.a)
        /\ FloorPs(call'.b) = FloorPs(RecordedBefore))
       => (/\ call'.exc = None
           /\ DictGet(clocks'[call'.t], call'.a) = FloorPs(RecordedBefore))]_vars

\* C4: the Libero false_paths set never holds both (a, b) and (b, a) for
\* distinct clocks; after a call on (a, b) exactly one of the two pairs is
\* stored; and no add_false_path_constraint call raises.
C4_NoReversePairs ==
    /\ \A t \in Toolchains : \A a \in Clocks, b \in Clocks :
          a # b => ~(<<a, b>> \in false_paths[t] /\ <<b, a>> \in false_paths[t])
    /\ call.op = "false_path" =>
          /\ call.exc = None
          /\ call.a # call.b =>
                Cardinality(false_paths[call.t]
                            \cap {<<call.a, call.b>>, <<call.b, call.a>>}) = 1

C4_Witness ==
    /\ call.op = "false_path"
    /\ call.a # call.b
    /\ <<call.b, call.a>> \in false_paths[call.t]
    /\ <<call.a, call.b>> \notin false_paths[call.t]

\* C12: a call of add_period_constraint or add_false_path_constraint,
\* succeeding or failing, changes nothing but the toolchain's clocks and
\* false_paths: the attributes of the clock signals and the platform side
\* (adapter, build state) stay as they were.
C12_OnlyConstraintState ==
    [][(call'.op \in {"period", "false_path"} /\ ncalls' = ncalls + 1)
       => (attr' = attr /\ kind' = kind /\ build' = build)]_vars

\* the part of C12 about everything but the clock signal's attributes
C12_PlatformUntouched ==
    [][(call'.op \in {"period", "false_path"} /\ ncalls' = ncalls + 1)
       => (/\ kind' = kind /\ build' = build
           /\ \A t \in Toolchains : t # call'.t =>
                 clocks'[t] = clocks[t] /\ false_paths'[t] = false_paths[t]
           /\ call'.op = "period" => false_paths' = false_paths
           /\ call'.op = "false_path" => clocks' = clocks /\ attr' = attr
           /\ kind = "Libero" => attr' = attr)]_vars


----------------------------------------------------------------------------
(* Timing-constraint emitters: _build_sdc (Anlogic, OSFPGA), _build_timing_sdc (Libero) *)

\* vns.get_name(clk): the name the Verilog namespace gives the signal
GetName(clk) == <<"clk", clk>>

\* "{}".format(sig) of a Signal object
Repr(sig) == <<"Signal", sig>>

RECURSIVE InsertByDuid(_, _)
\* x put into the sorted sequence s after every item whose key is not larger
InsertByDuid(s, x) ==
    IF s = <<>> THEN <<x>>
    ELSE IF duid(x[1]) < duid(Head(s)[1]) THEN <<x>> \o s
    ELSE <<Head(s)>> \o InsertByDuid(Tail(s), x)

RECURSIVE SortedItems(_)
\* sorted(clocks.items(), key=lambda x: x[0].duid)
SortedItems(d) ==
    IF d = <<>> THEN <<>>
    ELSE InsertByDuid(SortedItems(SubSeq(d, 1, Len(d) - 1)), d[Len(d)])

PairLess(x, y) ==
    \/ duid(x[1]) < duid(y[1])
    \/ duid(x[1]) = duid(y[1]) /\ duid(x[2]) < duid(y[2])

RECURSIVE SortedPairs(_)
\* sorted(false_paths, key=lambda x: (x[0].duid, x[1].duid))
SortedPairs(fp) ==
    IF fp = {} THEN <<>>
    ELSE LET m == CHOOSE x \in fp : \A y \in fp \ {x} : PairLess(x, y)
         IN <<m>> \o SortedPairs(fp \ {m})

\* one create_clock line of _build_sdc
SdcClockLine(item) ==
    [cmd |-> "create_clock", name |-> GetName(item[1]), period |-> item[2],
     sel |-> "get_ports", port |-> GetName(item[1])]

\* one create_clock line of _build_timing_sdc: format() is applied to the
\* last string literal only, so the -name argument keeps its placeholder
LiberoClockLine(item) ==
    [cmd |-> "create_clock", name |-> <<"{clk}">>, period |-> item[2],
     sel |-> "get_nets", port |-> GetName(item[1])]

\* one set_clock_groups line of _build_timing_sdc
LiberoGroupLine(pair) ==
    [cmd |-> "set_clock_groups", from_ |-> Repr(pair[1]), to |-> Repr(pair[2])]

\* the text written by the adapter's timing-constraint emitter
TimingText(k, d, fp, additional) ==
    LET items == SortedItems(d) IN
    IF k = "Libero"
    THEN [i \in 1..Len(items) |-> LiberoClockLine(items[i])]
         \o [i \in 1..Cardinality(fp) |-> LiberoGroupLine(SortedPairs(fp)[i])]
         \o additional
    ELSE [i \in 1..Len(items) |-> SdcClockLine(items[i])]

----------------------------------------------------------------------------
(* The same constraint calls made on two toolchain objects in any two orders *)

PeriodCalls == [op : {"period"}, a : Clocks, b : Periods]
FalsePathCalls == [op : {"false_path"}, a : Clocks, b : Clocks]

CallsOf(k) == PeriodCalls \cup (IF k \in WithFalsePath THEN FalsePathCalls ELSE {})

\* the script makes one of its remaining add_period_constraint calls on toolchain t
ScriptPeriodCall(t) ==
    \E c \in todo[t] :
        /\ c.op = "period"
        /\ AddPeriod(t, c.a, c.b)
        /\ todo' = [todo EXCEPT ![t] = @ \ {c}]
        /\ failed' = [failed EXCEPT ![t] = @ \/ call'.exc # None]
        /\ UNCHANGED ncalls

\* the script makes one of its remaining add_false_path_constraint calls on toolchain t
ScriptFalsePathCall(t) ==
    \E c \in todo[t] :
        /\ c.op = "false_path"
        /\ AddFalsePath(t, c.a, c.b)
        /\ todo' = [todo EXCEPT ![t] = @ \ {c}]
        /\ failed' = [failed EXCEPT ![t] = @ \/ call'.exc # None]
        /\ UNCHANGED ncalls

InitPerm ==
    /\ kind \in WithPeriod
    /\ InitToolchains
    /\ ncalls = 0
    /\ \E script \in SUBSET CallsOf(kind) :
          /\ Cardinality(script) \in 1..MaxScript
          /\ todo = [t \in Toolchains |-> script]
    /\ failed = [t \in Toolchains |-> FALSE]
    /\ build = NoBuild
    /\ pll = NoPll

NextPerm ==
    \/ \E t \in Toolchains : ScriptPeriodCall(t)
    \/ \E t \in Toolchains : ScriptFalsePathCall(t)

SpecPerm == InitPerm /\ [][NextPerm]_vars

\* the text the timing emitter writes for toolchain t
TimingTextOf(t) == TimingText(kind, clocks[t], false_paths[t], <<>>)

\* both toolchains were given every call of the script, and none raised
ScriptsDone == \A t \in Toolchains : todo[t] = {} /\ ~failed[t]

\* C5: the same constraints added in any two orders give identical timing
\* text, with the create_clock lines in ascending duid order.
C5_OrderIndependentText ==
    ScriptsDone =>
        /\ TimingTextOf(1) = TimingTextOf(2)
        /\ \A t \in Toolchains :
              LET items == SortedItems(clocks[t]) IN
              \A i \in 1..Len(items), j \in 1..Len(items) :
                  i < j => duid(items[i][1]) < duid(items[j][1])

\* the same, for the adapters whose emitter writes clock lines only
C5_OrderIndependentClocks ==
    (ScriptsDone /\ \A t \in Toolchains : false_paths[t] = {}) =>
        TimingTextOf(1) = TimingTextOf(2)

C5_ClocksWitness ==
    /\ ScriptsDone
    /\ Len(clocks[1]) = NClocks
    /\ clocks[1] # clocks[2]

----------------------------------------------------------------------------
(* Inputs of build(): the platform's pin table, device and sources *)

BuildNames == {"top", "soc"}

\* constraint attributes of generic_platform; Drive is one no emitter formats
IOStandard(name) == [kind |-> "IOStandard", value |-> name]
Misc(misc) == [kind |-> "Misc", value |-> misc]
Drive(strength) == [kind |-> "Drive", value |-> strength]

AttrLists ==
    { <<>>,
      <<IOStandard("LVCMOS33")>>,
      <<IOStandard("LVCMOS33"), Misc("PULLUP")>>,
      <<Drive("8")>> }

PinNames == <<"A1", "B2", "C3", "D4">>

\* one (name, pins, others, resource) entry of named_sc
NamedSignal(name, n, others) ==
    [name |-> name, pins |-> SubSeq(PinNames, 1, n), others |-> others,
     resource |-> <<name, 0>>]

\* the tables platform.resolve_signals may return
PinTables ==
    { <<NamedSignal("led", n, others)>> : n \in 1..MaxPins, others \in AttrLists }
    \cup { <<NamedSignal("led", 1, <<IOStandard("LVCMOS33")>>),
             NamedSignal("data", MaxPins, <<IOStandard("LVCMOS33")>>)>> }

\* platform.device, as the sequence of its "-"-separated parts
DevicesOf(k) ==
    CASE k = "Anlogic"    -> {<<"EG4S20BG256">>, <<"EG4X20BG256">>}
      [] k = "Libero"     -> {<<"MPF300TS_ES", "FCG484", "1">>, <<"MPF300TS_ES">>}
      [] k = "OSFPGA"     -> {<<"gemini">>, <<"k6n10">>}
      [] k = "QuickLogic" -> {<<"ql", "eos", "s3">>, <<"ql", "pp3">>}

\* one (filename, language, library) entry of platform.sources
Source(name) == <<<<name, ".v">>, "verilog", "work">>

\* platform.sources when build() is called: what the design registered earlier
RegisteredBefore == { <<>>, <<Source("core"), Source("mem")>> }

\* platform.add_source(filename): the file becomes an additional source
AddSource(sources, filename) == Append(sources, <<filename, "verilog", "work">>)

\* str.upper() of a name
Upper(x) ==
    CASE x = "raptor" -> "RAPTOR"
      [] x = "gemini" -> "GEMINI"
      [] x = "k6n10"  -> "K6N10"
      [] OTHER -> x

\* the toolchain argument of OSFPGAToolchain.__init__
OsfpgaToolchain == "raptor"

----------------------------------------------------------------------------
(* IO-constraint emitters: _build_adc (Anlogic), _build_io_pdc (Libero),
   _build_io_pcf (QuickLogic) *)

\* f"{name}[{i}]", and f"{sig}({i})" for QuickLogic
IndexedName(k, name, i) ==
    IF k = "QuickLogic" THEN <<name, "(", i, ")">> ELSE <<name, "[", i, "]">>

\* the expansion loop over named_sc: one (name, pin, others) per pin, the
\* name indexed from 0 when the signal has more than one pin
FlatSignal(k, sig) ==
    IF Len(sig.pins) > 1
    THEN [i \in 1..Len(sig.pins) |->
            [name |-> IndexedName(k, sig.name, i - 1), pin |-> sig.pins[i],
             others |-> sig.others]]
    ELSE <<[name |-> <<sig.name>>, pin |-> sig.pins[1], others |-> sig.others]>>

RECURSIVE Flatten(_, _)
Flatten(k, named_sc) ==
    IF named_sc = <<>> THEN <<>>
    ELSE FlatSignal(k, Head(named_sc)) \o Flatten(k, Tail(named_sc))

\* SelectSeq with the test written out: the items of s of the given kind
RECURSIVE OfKind(_, _)
OfKind(s, kd) ==
    IF s = <<>> THEN <<>>
    ELSE (IF Head(s).kind = kd THEN <<Head(s)>> ELSE <<>>) \o OfKind(Tail(s), kd)

\* the isinstance tests of _format_io_constraint; any other kind raises
FormatsKind(c) == c.kind \in {"Pins", "IOStandard", "Misc"}

\* _format_io_constraint(c), for a kind it formats
FormatIoConstraint(c) ==
    CASE c.kind = "Pins"       -> <<"-pin_name", c.value>>
      [] c.kind = "IOStandard" -> <<"-io_std", c.value>>
      [] c.kind = "Misc"       -> <<"-RES_PULL", c.value>>

\* Pins(pin), as _format_io_pdc and _format_io_pcf build it
PinsOf(pin) == [kind |-> "Pins", value |-> pin]

\* the line one emitter writes for one flat (name, pin, others) entry
IoLine(k, e) ==
    CASE k = "Anlogic" ->
            [cmd |-> "set_pin_assignment", name |-> e.name, pin |-> e.pin,
             attrs |-> [i \in 1..Len(OfKind(e.others, "IOStandard")) |->
                          <<"IOSTANDARD", OfKind(e.others, "IOStandard")[i].value>>]]
      [] k = "Libero" ->
            [cmd |-> "set_io", name |-> e.name,
             pin |-> FormatIoConstraint(PinsOf(e.pin))[2],
             attrs |-> [i \in 1..Len(e.others) |-> FormatIoConstraint(e.others[i])]]
      [] k = "QuickLogic" ->
            [cmd |-> "set_io", name |-> e.name, pin |-> PinsOf(e.pin).value,
             attrs |-> <<>>]

\* every attribute of the list is of a kind _format_io_constraint formats
LiberoFormats(others) == \A i \in 1..Len(others) : FormatsKind(others[i])

\* whether the emitter raises NotImplementedError on this table
IoRaises(k, named_sc) ==
    /\ k = "Libero"
    /\ \E i \in 1..Len(named_sc) : ~LiberoFormats(named_sc[i].others)

\* the text of the IO constraint file
IoText(k, named_sc) ==
    LET flat == Flatten(k, named_sc) IN [i \in 1..Len(flat) |-> IoLine(k, flat[i])]

\* the file names the emitters open, as the pieces their f-strings join
IoFile(k, build_name) ==
    CASE k = "Anlogic"    -> <<"top", ".adc">>
      [] k = "Libero"     -> <<build_name, "_io.pdc">>
      [] k = "QuickLogic" -> <<build_name, ".pcf">>

FpFile(build_name) == <<build_name, "_fp.pdc">>

TimingFile(k, build_name) ==
    IF k = "Anlogic" THEN <<"top", ".sdc">> ELSE <<build_name, ".sdc">>

VerilogFile(build_name) == <<build_name, ".v">>

ProjectFile(k, build_name) ==
    IF k = "Anlogic" THEN <<build_name, ".al">> ELSE <<build_name, ".tcl">>

ScriptFile(k, build_name) ==
    CASE k = "Anlogic"    -> <<"run", ".tcl">>
      [] k = "OSFPGA"     -> <<"build", ".tcl">>
      [] k = "Libero"     -> <<"build_", build_name, ".sh">>
      [] k = "QuickLogic" -> <<"Makefile">>

----------------------------------------------------------------------------
(* Project and script emitters *)

\* device in devices.keys(), for the devices table of parse_device
KnownDevice(device) == device = <<"EG4S20BG256">>

\* parse_device(device), for a device of the table
ParseDevice(device) ==
    [architecture |-> "eagle_s20", family |-> "EG4", package |-> "BG256"]

\* {"ql-eos-s3": "PU64"}.get(platform.device)
QuickLogicPart(device) == IF device = <<"ql", "eos", "s3">> THEN "PU64" ELSE None

\* the first item of each (filename, language, library) source
SourcePaths(sources) == [i \in 1..Len(sources) |-> sources[i][1]]

\* _build_al: the .al project, with datetime.now() read as date
AlText(name, family, device, files, date) ==
    [created |-> date, name |-> name, family |-> family, device |-> device,
     verilog |-> SourcePaths(files), adc |-> <<"top", ".adc">>,
     sdc |-> <<"top", ".sdc">>, top |-> name, last_change |-> date]

\* _build_tcl of anlogic.py: run.tcl
AnlogicTclText(name, architecture, package) ==
    [import_device |-> <<architecture, ".db">>, package |-> package,
     open_project |-> <<name, ".al">>, top |-> name,
     read_adc |-> <<"top", ".adc">>, read_sdc |-> <<"top", ".sdc">>,
     bit |-> <<name, ".bit">>]

\* _build_tcl of osfpga.py: build.tcl
OsfpgaTclText(device, files, build_name, include_paths) ==
    [create_design |-> build_name, target_device |-> Upper(device[1]),
     include_paths |-> <<"./">> \o include_paths,
     design_files |-> SourcePaths(files), top |-> build_name,
     constraint_file |-> <<build_name, ".sdc">>]

\* _build_tcl of libero_soc.py: <build_name>.tcl; init_files are the names
\* os.listdir(build_dir) gave that end with ".init"
LiberoTclText(device, sources, build_name, init_files) ==
    [name |-> build_name, die |-> device[1], package |-> device[2],
     speed |-> <<"-", device[3]>>, hdl_source |-> SourcePaths(sources),
     root |-> build_name, copies |-> init_files,
     io_pdc |-> <<build_name, "_io.pdc">>, fp_pdc |-> <<build_name, "_fp.pdc">>,
     sdc |-> <<build_name, ".sdc">>]

\* _build_script of libero_soc.py, on a platform other than win32 / cygwin
LiberoScriptText(revision) == [comment |-> <<"Autogenerated by LiteX / git: ", revision>>]

\* _build_makefile of symbiflow.py
MakefileText(device, build_name) ==
    [top |-> build_name, device |-> device, part |-> QuickLogicPart(device),
     verilog |-> <<build_name, ".v">>, pcf |-> <<build_name, ".pcf">>]

\* the toolchain name the messages of anlogic.py, osfpga.py and symbiflow.py carry
MessageLabel(k) ==
    CASE k = "Anlogic"    -> "Tang Dinasty"
      [] k = "OSFPGA"     -> Upper(OsfpgaToolchain)
      [] k = "QuickLogic" -> "QuickLogic Symbiflow"

\* the OSError raised when which() finds no executable
NotFoundError(k) ==
    [type |-> "OSError",
     msg |-> <<"Unable to find ", MessageLabel(k), " toolchain, please:",
               "- Add ", MessageLabel(k), " toolchain to your $PATH.">>]

\* the OSError raised on a non-zero exit status
ExecutionError(k) ==
    [type |-> "OSError",
     msg |-> IF k = "Libero" THEN <<"Subprocess failed">>
             ELSE <<"Error occured during ", MessageLabel(k), "'s script execution.">>]

\* the command line of the subprocess
Command(k, script) ==
    CASE k = "Anlogic"    -> <<"td", <<"run", ".tcl">>>>
      [] k = "OSFPGA"     -> <<OsfpgaToolchain, "--batch", "--script", <<"build", ".tcl">>>>
      [] k = "Libero"     -> <<"bash", script>>
      [] k = "QuickLogic" -> <<"make", "-j1">>

\* whether the run step asks which() for the vendor executable before it launches
ChecksPath(k) == k # "Libero"

----------------------------------------------------------------------------
(* build(): the file system, the working directory and the step sequence *)

\* the directory the process starts in
Orig == <<"work">>

\* build_dir: the default relative "build", or an absolute path
BuildDirs == { [abs |-> FALSE, parts |-> <<"build">>],
               [abs |-> TRUE,  parts |-> <<"work", "build">>] }

\* how the operating system resolves a path given to makedirs, chdir, listdir
Resolve(cwd, dir) == IF dir.abs THEN dir.parts ELSE cwd \o dir.parts

Prefixes(path) == {SubSeq(path, 1, n) : n \in 1..Len(path)}

Times == 1..MaxTime
ExitCodes == {0, 1}
NotRun == -1                                  \* no subprocess has returned
NoError == [type |-> None, msg |-> <<>>]      \* no exception was raised

\* Anlogic's build() with the project and script emitters called first
StepsScriptFirst(k) ==
    CASE k = "Anlogic" ->
            <<"setup", "finalize", "serialize", "parse_device", "project", "script",
              "io", "timing", "run", "teardown">>
      [] k = "OSFPGA" ->
            <<"setup", "finalize", "serialize", "script", "timing", "run", "teardown">>
      [] k = "Libero" ->
            <<"setup", "finalize", "serialize", "project", "script", "io", "fp",
              "timing", "run", "teardown">>
      [] k = "QuickLogic" ->
            <<"setup", "finalize", "serialize", "script", "io", "run", "teardown">>

\* the statements of each build() in source order
StepsOf(k) ==
    CASE k = "Anlogic" ->
            <<"setup", "finalize", "serialize", "io", "timing", "parse_device",
              "project", "script", "run", "teardown">>
      [] k = "OSFPGA" ->
            <<"setup", "finalize", "serialize", "timing", "script", "run", "teardown">>
      [] k = "Libero" ->
            <<"setup", "finalize", "serialize", "project", "io", "fp", "timing",
              "script", "run", "teardown">>
      [] k = "QuickLogic" ->
            <<"setup", "finalize", "serialize", "io", "script", "run", "teardown">>

\* build() is at the statement named step
At(step) ==
    /\ build.pc \in 1..Len(StepsOf(kind))
    /\ build.status = "Running"
    /\ StepsOf(kind)[build.pc] = step

\* an exception leaves build(): nothing after the raise runs
Raised(b, type, msg) ==
    [b EXCEPT !.status = "Failure", !.error = [type |-> type, msg |-> msg]]

\* open(name, "w") and write in the current directory
Written(b, fname, role, content) ==
    [b EXCEPT !.files = (<<b.cwd, fname>> :> content) @@ @,
              !.written = Append(@, [name |-> fname, role |-> role]),
              !.pc = @ + 1]

\* a file write either happens or the open raises OSError
WriteFile(b, fname, role, content) ==
    {Written(b, fname, role, content), Raised(b, "OSError", <<"open">>)}

Frame == UNCHANGED <<kind, clocks, false_paths, attr, call, ncalls, todo, failed, pll>>

\* os.makedirs(build_dir, exist_ok=True); cwd = os.getcwd(); os.chdir(build_dir)
Setup ==
    /\ At("setup")
    /\ \/ build' = [build EXCEPT
                      !.dirs = @ \cup Prefixes(Resolve(build.cwd, build.inp.build_dir)),
                      !.saved_cwd = build.cwd,
                      !.cwd = Resolve(build.cwd, build.inp.build_dir),
                      !.pc = @ + 1]
       \/ build' = Raised(build, "OSError", <<"makedirs">>)
    /\ Frame

\* fragment.get_fragment(); platform.finalize(fragment)
Finalize ==
    /\ At("finalize")
    /\ \/ build' = [build EXCEPT !.pc = @ + 1]
       \/ build' = Raised(build, "FinalizeError", <<"finalize">>)
    /\ Frame

\* platform.get_verilog; platform.resolve_signals; v_output.write(v_file);
\* platform.add_source(v_file)
Serialize ==
    /\ At("serialize")
    /\ \/ LET v_file == VerilogFile(build.inp.build_name)
              b == Written(build, v_file, "hdl", [module |-> build.inp.build_name])
          IN build' = [b EXCEPT !.sources = AddSource(@, v_file)]
       \/ build' = Raised(build, "OSError", <<"get_verilog">>)
    /\ Frame

\* _build_adc / _build_io_pdc / _build_io_pcf
EmitIo ==
    /\ At("io")
    /\ IF IoRaises(kind, build.inp.named_sc)
       THEN build' = Raised(build, "NotImplementedError", <<>>)
       ELSE build' \in WriteFile(build, IoFile(kind, build.inp.build_name), "io",
                                 IoText(kind, build.inp.named_sc))
    /\ Frame

\* _build_fp_pdc
EmitFp ==
    /\ At("fp")
    /\ build' \in WriteFile(build, FpFile(build.inp.build_name), "fp", <<>>)
    /\ Frame

\* _build_sdc / _build_timing_sdc
EmitTiming ==
    /\ At("timing")
    /\ build' \in WriteFile(build, TimingFile(kind, build.inp.build_name), "timing",
                            TimingText(kind, clocks[1], false_paths[1], <<>>))
    /\ Frame

\* architecture, family, package = parse_device(platform.device)
ParseDeviceStep ==
    /\ At("parse_device")
    /\ IF ~KnownDevice(build.inp.device)
       THEN build' = Raised(build, "ValueError", <<"Invalid device ", build.inp.device[1]>>)
       ELSE build' = [build EXCEPT !.pc = @ + 1]
    /\ Frame

\* _build_al (Anlogic) / _build_tcl (Libero)
EmitProject ==
    /\ At("project")
    /\ LET name == build.inp.build_name
           device == build.inp.device
           listed == Resolve(build.cwd, build.inp.build_dir)
       IN IF kind = "Anlogic"
          THEN \E date \in Times :
                 build' \in WriteFile(build, ProjectFile(kind, name), "project",
                     AlText(name, ParseDevice(device).family, device,
                            build.sources, date))
          ELSE IF Len(device) # 3
          THEN build' = Raised(build, "ValueError", <<"unpack">>)
          ELSE IF listed \notin build.dirs
          THEN build' = Raised(build, "FileNotFoundError", <<"listdir">>)
          ELSE build' \in WriteFile(build, ProjectFile(kind, name), "project",
                     LiberoTclText(device, build.sources, name,
                        {f \in {k[2] : k \in DOMAIN build.files} :
                            /\ <<listed, f>> \in DOMAIN build.files
                            /\ f[Len(f)] = ".init"}))
    /\ Frame

\* _build_tcl (Anlogic, OSFPGA) / _build_script (Libero) / _build_makefile (QuickLogic)
EmitScript ==
    /\ At("script")
    /\ LET name == build.inp.build_name
           device == build.inp.device
           parsed == ParseDevice(device)
           text == CASE kind = "Anlogic" ->
                           AnlogicTclText(name, parsed.architecture, parsed.package)
                     [] kind = "OSFPGA" ->
                           OsfpgaTclText(device, build.sources, name, <<>>)
                     [] kind = "Libero" -> LiberoScriptText("rev")
                     [] kind = "QuickLogic" -> MakefileText(device, name)
       IN build' \in WriteFile(build, ScriptFile(kind, name), "script", text)
    /\ Frame

\* if run: the PATH check, then subprocess.call and the test of its status
Run ==
    /\ At("run")
    /\ IF ~build.inp.run
       THEN build' = [build EXCEPT !.pc = @ + 1]
       ELSE IF ChecksPath(kind) /\ ~build.inp.on_path
       THEN build' = Raised(build, NotFoundError(kind).type, NotFoundError(kind).msg)
       ELSE \E status \in ExitCodes :
              LET b == [build EXCEPT
                          !.dirs = IF kind = "Libero" THEN @ \ {build.cwd \o <<"impl">>}
                                   ELSE @,
                          !.subprocs = Append(@, Command(kind,
                                          ScriptFile(kind, build.inp.build_name))),
                          !.exit = status]
              IN build' = IF status # 0
                          THEN Raised(b, ExecutionError(kind).type,
                                      ExecutionError(kind).msg)
                          ELSE [b EXCEPT !.pc = @ + 1]
    /\ Frame

\* os.chdir(cwd); return v_output.ns
Teardown ==
    /\ At("teardown")
    /\ build' = [build EXCEPT !.cwd = build.saved_cwd, !.status = "Success",
                              !.pc = @ + 1]
    /\ Frame

\* the build program is started again, with the same inputs, in a new process:
\* the files on disk stay, the working directory is the starting one again
NewRun ==
    /\ build.pc > 0
    /\ build.status \in {"Success", "Failure"}
    /\ build.runNo < MaxRuns
    /\ build' = [build EXCEPT !.pc = 1, !.status = "Running", !.error = NoError,
                              !.cwd = build.cwd0, !.saved_cwd = <<>>,
                              !.written = <<>>, !.sources = build.inp.sources,
                              !.subprocs = <<>>, !.exit = NotRun,
                              !.runNo = @ + 1, !.archive = build.files]
    /\ Frame

\* the constraints the caller has added when it calls build()
ConstrainedBefore ==
    \/ /\ clocks = [t \in Toolchains |-> <<>>]
       /\ false_paths = [t \in Toolchains |-> {}]
       /\ attr = [c \in Clocks |-> {}]
       /\ call = NoCall
    \/ /\ kind \in WithPeriod
       /\ clocks = [t \in Toolchains |->
                      IF t = 1
                      THEN DictSet(DictSet(<<>>, NClocks, RecordedPeriod(kind, MaxPeriod)),
                                   1, RecordedPeriod(kind, 1))
                      ELSE <<>>]
       /\ false_paths = [t \in Toolchains |->
                           IF t = 1 /\ kind \in WithFalsePath
                           THEN FalsePathsAfter({}, NClocks, 1) ELSE {}]
       /\ attr = [c \in Clocks |->
                    IF kind # "Libero" /\ c \in {1, NClocks} THEN {"keep"} ELSE {}]
       /\ call = IF kind \in WithFalsePath
                 THEN [op |-> "false_path", t |-> 1, a |-> NClocks, b |-> 1, exc |-> None]
                 ELSE [op |-> "period", t |-> 1, a |-> 1, b |-> 1, exc |-> None]

\* build(platform, fragment, build_dir, build_name, run) has just been called
InitBuild ==
    /\ kind \in Adapters
    /\ ConstrainedBefore
    /\ ncalls = 0
    /\ pll = NoPll
    /\ todo = [t \in Toolchains |-> {}]
    /\ failed = [t \in Toolchains |-> FALSE]
    /\ \E build_dir \in BuildDirs, build_name \in BuildNames, device \in DevicesOf(kind),
          run \in BOOLEAN, on_path \in BOOLEAN, named_sc \in PinTables,
          sources \in RegisteredBefore :
          build = [pc |-> 1, status |-> "Running", error |-> NoError,
                   cwd |-> Orig, cwd0 |-> Orig, saved_cwd |-> <<>>,
                   dirs |-> {Orig}, files |-> <<>>, written |-> <<>>,
                   sources |-> sources, subprocs |-> <<>>, exit |-> NotRun,
                   runNo |-> 1, archive |-> <<>>,
                   inp |-> [build_dir |-> build_dir, build_name |-> build_name,
                            device |-> device, run |-> run, on_path |-> on_path,
                            named_sc |-> named_sc, sources |-> sources]]

NextBuild ==
    \/ Setup
    \/ Finalize
    \/ Serialize
    \/ EmitIo
    \/ EmitFp
    \/ EmitTiming
    \/ ParseDeviceStep
    \/ EmitProject
    \/ EmitScript
    \/ Run
    \/ Teardown
    \/ NewRun

SpecBuild == InitBuild /\ [][NextBuild]_vars

----------------------------------------------------------------------------
(* Efinix PLL helper: EFINIXPLL and its subclasses TRIONPLL, TITANIUMPLL *)

PllClasses == {"EFINIXPLL", "TRIONPLL", "TITANIUMPLL"}

\* the version argument each class passes to EFINIXPLL.__init__
VersionsOf(cls) ==
    CASE cls = "EFINIXPLL"   -> {"V1_V2", "V3"}
      [] cls = "TRIONPLL"    -> {"V1_V2"}
      [] cls = "TITANIUMPLL" -> {"V3"}

\* self.type
PllType(version) == IF version = "V1_V2" THEN "TRIONPLL" ELSE "TITANIUMPLL"

\* the class attribute nclkouts_max
nclkouts_max(cls) == IF cls = "TITANIUMPLL" THEN 5 ELSE 3

\* the n argument of __init__
PllNumbers == {0, 1}

\* the name argument of create_clkout: "" (here <<>>) or a name of the caller
ClkoutNames == {<<>>, <<"sys">>}

\* the cd argument of create_clkout: None or a clock domain
ClockDomains == {None, "cd_sys"}

\* the freq argument of create_clkout, in MHz
Freqs == {100}

\* 1e9/freq, in ns
PeriodNs(freq) == 1000 \div freq

\* clk_out_name = f"{self.name}_clkout{self.nclkouts}" if name == "" else name
ClkOutName(p, name) ==
    IF name = <<>> THEN <<"pll", p.n, "_clkout", p.nclkouts>> ELSE name

AssertOffByOne(p) == p.nclkouts <= nclkouts_max(p.cls)

\* assert self.nclkouts < self.nclkouts_max
AssertHolds(p) == p.nclkouts < nclkouts_max(p.cls)

\* create_clkout(cd, freq, phase=0, margin=0, name)
create_clkout(cd, freq, name) ==
    /\ pll.cls # None
    /\ pll.calls < MaxPllCalls
    /\ LET clk_out_name == ClkOutName(pll, name)
           made == [cd |-> cd, freq |-> freq, name |-> name, exc |-> None]
           counted == [pll EXCEPT !.calls = @ + 1]
           constrained ==
               [counted EXCEPT !.additional_sdc_commands =
                   Append(@, [cmd |-> "create_clock", period |-> PeriodNs(freq),
                              name |-> clk_out_name])]
           requested ==
               IF cd = None THEN constrained
               ELSE [constrained EXCEPT !.excluded_ios = Append(@, clk_out_name)]
       IN IF ~AssertHolds(pll)
          THEN pll' = [counted EXCEPT !.call = [made EXCEPT !.exc = "AssertionError"]]
          ELSE \/ pll' = [requested EXCEPT
                            !.nclkouts = @ + 1,
                            !.clk_out = Append(@, <<clk_out_name, freq, 0, 0>>),
                            !.defaulted = IF name = <<>>
                                          THEN @ \cup {Len(pll.clk_out) + 1} ELSE @,
                            !.call = made]
               \* platform.add_extension / platform.request raises
               \/ /\ cd # None
                  /\ pll' = [constrained EXCEPT
                               !.call = [made EXCEPT !.exc = "ConstraintError"]]
    /\ UNCHANGED <<kind, clocks, false_paths, attr, call, ncalls, todo, failed, build>>

\* EFINIXPLL.__init__(platform, n, version) has run
InitPll ==
    /\ kind = "Efinix"
    /\ InitToolchains
    /\ ncalls = 0
    /\ todo = [t \in Toolchains |-> {}]
    /\ failed = [t \in Toolchains |-> FALSE]
    /\ build = NoBuild
    /\ \E cls \in PllClasses, n \in PllNumbers :
          \E version \in VersionsOf(cls) :
             pll = [cls |-> cls, type |-> PllType(version), version |-> version,
                    n |-> n, nclkouts |-> 0, clk_out |-> <<>>,
                    additional_sdc_commands |-> <<>>, excluded_ios |-> <<>>,
                    defaulted |-> {}, calls |-> 0,
                    call |-> [cd |-> None, freq |-> 0, name |-> <<>>, exc |-> None]]

NextPll ==
    \E cd \in ClockDomains, freq \in Freqs, name \in ClkoutNames :
        create_clkout(cd, freq, name)

SpecPll == InitPll /\ [][NextPll]_vars

\* the state of the PLL that C18 speaks of
PllInv ==
    /\ pll.nclkouts = Len(pll.clk_out)
    /\ pll.nclkouts <= nclkouts_max(pll.cls)
    /\ pll.cls = "TRIONPLL" => pll.nclkouts <= 3
    /\ pll.cls = "TITANIUMPLL" => pll.nclkouts <= 5
    /\ \A i \in pll.defaulted, j \in pll.defaulted :
          i # j => pll.clk_out[i][1] # pll.clk_out[j][1]

\* a call made with nclkouts at the maximum fails and changes nothing
PllFullStep ==
    pll.nclkouts = nclkouts_max(pll.cls) =>
        /\ pll'.call.exc = "AssertionError"
        /\ pll'.nclkouts = pll.nclkouts
        /\ pll'.clk_out = pll.clk_out
        /\ pll'.additional_sdc_commands = pll.additional_sdc_commands
        /\ pll'.excluded_ios = pll.excluded_ios

\* C18: nclkouts is the length of the block's clk_out list and never exceeds
\* nclkouts_max (3 for TRIONPLL, 5 for TITANIUMPLL); a create_clkout call made
\* at the maximum fails its assertion and leaves nclkouts, clk_out,
\* additional_sdc_commands and excluded_ios as they were; the default names
\* given to the outputs of the PLL are pairwise distinct.
C18_ClkoutCountBounded == []PllInv /\ [][PllFullStep]_vars

C18_Witness ==
    /\ pll.cls = "TITANIUMPLL"
    /\ pll.nclkouts = 5
    /\ pll.call.exc = "AssertionError"
    /\ Cardinality(pll.defaulted) >= 2
    /\ pll.excluded_ios # <<>>

----------------------------------------------------------------------------
(* Claims about build(), checked under SpecBuild *)

\* build() has returned or raised
Ended == build.pc > 0 /\ build.status \in {"Success", "Failure"}

\* the build directory of this process
BuildDirPath == Resolve(build.cwd0, build.inp.build_dir)

\* the file was written by the current run
WrittenNow(fname) == \E i \in 1..Len(build.written) : build.written[i].name = fname

\* C1: when build() ends, by return or by an exception of any step, the
\* working directory is the one that was current when build() was called.
C1_CwdRestored == Ended => build.cwd = build.cwd0

\* the line carries attribute c of the parent signal
Carries(line, c) == \E j \in 1..Len(line.attrs) : line.attrs[j][2] = c.value

\* the lines of text from position base + 1 on are the n indexed entries of sig
ExpandedAt(text, base, sig) ==
    /\ base + Len(sig.pins) <= Len(text)
    /\ \A i \in 1..Len(sig.pins) :
          /\ text[base + i].name = IndexedName(kind, sig.name, i - 1)
          /\ text[base + i].pin = sig.pins[i]
          /\ \A j \in 1..Len(sig.others) : Carries(text[base + i], sig.others[j])

\* C6: for a signal bound to n > 1 pins the IO emitter writes exactly n
\* entries, the i-th named sig[i] (sig(i) for QuickLogic) and bound to the
\* i-th pin, each carrying every attribute of the signal.
C6_MultiBitExpansion ==
    (kind \in WithIo /\ WrittenNow(IoFile(kind, build.inp.build_name))) =>
        LET text == build.files[<<BuildDirPath, IoFile(kind, build.inp.build_name)>>]
            named_sc == build.inp.named_sc
        IN \A s \in 1..Len(named_sc) :
              Len(named_sc[s].pins) > 1 =>
                 /\ Cardinality({i \in 1..Len(text) :
                                    text[i].name[1] = named_sc[s].name})
                       = Len(named_sc[s].pins)
                 /\ \E base \in 0..Len(text) : ExpandedAt(text, base, named_sc[s])

\* the position of the run step in build()
RunIndex == CHOOSE i \in 1..Len(StepsOf(kind)) : StepsOf(kind)[i] = "run"

\* the run step has been executed
RunStepDone ==
    \/ build.pc > RunIndex
    \/ build.pc = RunIndex /\ build.status = "Failure"

\* the error tells the user to add the toolchain to $PATH
IsNotFound(error) ==
    /\ error.type = "OSError"
    /\ \E i \in 1..Len(error.msg) : error.msg[i] = " toolchain to your $PATH."

\* C7: with run requested and the vendor executable not on the search path,
\* build() fails with the toolchain-not-found OSError and launches no
\* subprocess.
C7_NotFoundFailsFast ==
    (build.pc > 0 /\ build.inp.run /\ ~build.inp.on_path) =>
        /\ build.subprocs = <<>>
        /\ RunStepDone => (build.status = "Failure" /\ IsNotFound(build.error))

\* the names a message can use for the adapter's vendor toolchain
VendorWords(k) ==
    CASE k = "Anlogic"    -> {"Tang Dinasty", "Anlogic"}
      [] k = "OSFPGA"     -> {Upper(OsfpgaToolchain), OsfpgaToolchain, "OSFPGA"}
      [] k = "QuickLogic" -> {"QuickLogic Symbiflow", "QuickLogic", "Symbiflow"}
      [] k = "Libero"     -> {"Libero", "Libero SoC", "Microsemi"}

NamesVendor(error) == \E i \in 1..Len(error.msg) : error.msg[i] \in VendorWords(kind)

\* C8: a subprocess that exits with a non-zero status makes build() fail with
\* an error naming the vendor toolchain; one that exits with 0 makes it succeed.
C8_ExitStatusDecides ==
    build.pc > 0 =>
        /\ (build.exit # NotRun /\ build.exit # 0) =>
              (build.status = "Failure" /\ NamesVendor(build.error))
        /\ (build.exit = 0 /\ build.status # "Running") => build.status = "Success"

\* the place of a file in the fixed order of the emitters
Rank(role) ==
    CASE role = "hdl"     -> 0
      [] role = "io"      -> 1
      [] role = "fp"      -> 2
      [] role = "timing"  -> 3
      [] role = "project" -> 4
      [] role = "script"  -> 5

\* C9: the files are written in the order IO, floorplan, timing, project,
\* build script: no project or script file before a constraint file.
C9_EmitterOrder ==
    build.pc > 0 =>
        \A i \in 1..Len(build.written), j \in 1..Len(build.written) :
            i < j => Rank(build.written[i].role) <= Rank(build.written[j].role)

\* the files an adapter's build() writes besides the Verilog
FileRoles(k) ==
    {StepsOf(k)[i] : i \in 1..Len(StepsOf(k))}
        \cap {"io", "fp", "timing", "project", "script"}

\* C9, amended: the constraint emitters run in the order IO, floorplan,
\* timing and the build script is written after them; the project file comes
\* after the constraint files except in Libero, which writes its project
\* .tcl before them; the subprocess is launched only after all the files of
\* the adapter are written.
C9_ConstraintsThenScript ==
    build.pc > 0 =>
        /\ \A i \in 1..Len(build.written), j \in 1..Len(build.written) :
              (/\ i < j
               /\ (kind = "Libero" => /\ build.written[i].role # "project"
                                      /\ build.written[j].role # "project"))
              => Rank(build.written[i].role) <= Rank(build.written[j].role)
        /\ \A i \in 1..Len(build.written), j \in 1..Len(build.written) :
              (/\ kind = "Libero"
               /\ build.written[i].role = "project"
               /\ build.written[j].role \in {"io", "fp", "timing", "script"})
              => i < j
        /\ build.subprocs # <<>> =>
              \A role \in FileRoles(kind) :
                  \E i \in 1..Len(build.written) : build.written[i].role = role

C9_Witness ==
    /\ kind = "Libero"
    /\ build.pc > 0
    /\ build.subprocs # <<>>
    /\ build.status = "Success"
    /\ build.written[2].role = "project"
    /\ build.written[3].role = "io"

\* C10: a second run with the same inputs writes every file with the
\* content the first run gave it.
C10_SameInputsSameText ==
    (build.pc > 0 /\ build.runNo > 1) =>
        \A f \in DOMAIN build.files \cap DOMAIN build.archive :
            (f[1] = BuildDirPath /\ WrittenNow(f[2])) =>
                build.files[f] = build.archive[f]

\* the roles of the constraint files
ConstraintRoles == {"io", "fp", "timing"}

\* the constraint file names a written project or script file refers to
ConstraintRefs(k, role, text) ==
    CASE k = "Anlogic" /\ role = "project"    -> {text.adc, text.sdc}
      [] k = "Anlogic" /\ role = "script"     -> {text.read_adc, text.read_sdc}
      [] k = "OSFPGA" /\ role = "script"      -> {text.constraint_file}
      [] k = "Libero" /\ role = "project"     -> {text.io_pdc, text.fp_pdc, text.sdc}
      [] k = "QuickLogic" /\ role = "script"  -> {text.pcf}
      [] OTHER -> {}

\* the names of the constraint files the current run has written
ConstraintFilesWritten ==
    {build.written[i].name : i \in {j \in 1..Len(build.written) :
                                       build.written[j].role \in ConstraintRoles}}

\* C11: every constraint file build() writes (IO, floorplan, timing) is named
\* <build_name> followed by a vendor suffix, and when build() succeeds the
\* project and script files refer to the constraint files under exactly the
\* names that were written.
C11_ConstraintFilesNamed ==
    build.pc > 0 =>
        /\ \A i \in 1..Len(build.written) :
              build.written[i].role \in ConstraintRoles =>
                 /\ Len(build.written[i].name) = 2
                 /\ build.written[i].name[1] = build.inp.build_name
        /\ build.status = "Success" =>
              \A i \in 1..Len(build.written) :
                 build.written[i].role \in {"project", "script"} =>
                    ConstraintRefs(kind, build.written[i].role,
                                   build.files[<<BuildDirPath, build.written[i].name>>])
                       \subseteq ConstraintFilesWritten

\* the second conjunct of C11 alone: the references match the written names
C11_RefsMatchWritten ==
    (build.pc > 0 /\ build.status = "Success") =>
        \A i \in 1..Len(build.written) :
           build.written[i].role \in {"project", "script"} =>
              ConstraintRefs(kind, build.written[i].role,
                             build.files[<<BuildDirPath, build.written[i].name>>])
                 \subseteq ConstraintFilesWritten


\* the device identifier is one the adapter's build() can place: in the table
\* of parse_device, with a part in the table of _build_makefile, or made of
\* the three parts die-package-speed
Recognized(k, device) ==
    CASE k = "Anlogic"    -> KnownDevice(device)
      [] k = "QuickLogic" -> QuickLogicPart(device) # None
      [] k = "Libero"     -> Len(device) = 3
      [] k = "OSFPGA"     -> TRUE

\* the statement of build() that first looks at the device identifier
DeviceStep(k) ==
    CASE k = "Anlogic"    -> "parse_device"
      [] k = "QuickLogic" -> "script"
      [] k = "Libero"     -> "project"
      [] k = "OSFPGA"     -> "script"

\* the current run has written a file of the given role
WrittenRole(role) == \E i \in 1..Len(build.written) : build.written[i].role = role

\* C13: with a device the adapter does not recognize, build() never returns
\* normally, writes no project file, script or Makefile, and the statement
\* that looks at the device fails with the invalid-device ValueError (unless
\* the file system refuses the file first).
C13_UnknownDeviceFails ==
    (build.pc > 0 /\ ~Recognized(kind, build.inp.device)) =>
        /\ build.status # "Success"
        /\ ~WrittenRole("project") /\ ~WrittenRole("script")
        /\ (/\ build.status = "Failure"
            /\ StepsOf(kind)[build.pc] = DeviceStep(kind)
            /\ build.error.msg # <<"open">>)
           => build.error.type = "ValueError"

\* C13 for the adapters other than QuickLogic
C13_UnknownDeviceFailsElsewhere ==
    (build.pc > 0 /\ kind # "QuickLogic" /\ ~Recognized(kind, build.inp.device)) =>
        /\ build.status # "Success"
        /\ ~WrittenRole("project") /\ ~WrittenRole("script")
        /\ (/\ build.status = "Failure"
            /\ StepsOf(kind)[build.pc] = DeviceStep(kind)
            /\ build.error.msg # <<"open">>)
           => build.error.type = "ValueError"


\* some signal of the table carries an attribute of a kind that none of the
\* emitters has a format for
HasUnknownAttribute(named_sc) ==
    \E s \in 1..Len(named_sc) :
        \E j \in 1..Len(named_sc[s].others) : ~FormatsKind(named_sc[s].others[j])

\* C14: given a signal with an attribute of a kind it cannot format, an IO
\* emitter writes no IO constraint file and raises NotImplementedError.
C14_UnknownAttributeFails ==
    (build.pc > 0 /\ kind \in WithIo /\ HasUnknownAttribute(build.inp.named_sc)) =>
        /\ ~WrittenRole("io")
        /\ (/\ build.status = "Failure"
            /\ StepsOf(kind)[build.pc] = "io"
            /\ build.error.msg # <<"open">>)
           => build.error.type = "NotImplementedError"

\* C14 for the Libero emitter
C14_LiberoUnknownAttributeFails ==
    (build.pc > 0 /\ kind = "Libero" /\ HasUnknownAttribute(build.inp.named_sc)) =>
        /\ ~WrittenRole("io")
        /\ (/\ build.status = "Failure"
            /\ StepsOf(kind)[build.pc] = "io"
            /\ build.error.msg # <<"open">>)
           => build.error.type = "NotImplementedError"


\* the create_clock lines of a timing text whose selector names the clock
ClockLinesOf(text, clk) ==
    {n \in 1..Len(text) : text[n].cmd = "create_clock" /\ text[n].port = GetName(clk)}

\* a template placeholder left in a -name argument or in a selector
Placeholder == <<"{clk}">>

\* C15: for every recorded (clock, period) entry the timing file holds exactly
\* one create_clock line, with the recorded period and the clock's resolved
\* name both after -name and inside the selector; no line keeps a template
\* placeholder.
C15_OneCreateClockPerEntry ==
    (build.pc > 0 /\ kind \in WithPeriod /\ WrittenRole("timing")) =>
        LET text == build.files[<<BuildDirPath, TimingFile(kind, build.inp.build_name)>>]
            d == clocks[1]
        IN /\ \A i \in 1..Len(d) :
                 /\ Cardinality(ClockLinesOf(text, d[i][1])) = 1
                 /\ \A n \in ClockLinesOf(text, d[i][1]) :
                       /\ text[n].period = d[i][2]
                       /\ text[n].name = GetName(d[i][1])
           /\ \A n \in 1..Len(text) :
                 text[n].cmd = "create_clock" =>
                    text[n].name # Placeholder /\ text[n].port # Placeholder

\* C15 without the -name argument: one line per entry, period and selector
C15_OneLinePerEntry ==
    (build.pc > 0 /\ kind \in WithPeriod /\ WrittenRole("timing")) =>
        LET text == build.files[<<BuildDirPath, TimingFile(kind, build.inp.build_name)>>]
            d == clocks[1]
        IN /\ \A i \in 1..Len(d) :
                 /\ Cardinality(ClockLinesOf(text, d[i][1])) = 1
                 /\ \A n \in ClockLinesOf(text, d[i][1]) :
                       /\ text[n].period = d[i][2]
                       /\ kind # "Libero" => text[n].name = GetName(d[i][1])
           /\ Cardinality({n \in 1..Len(text) : text[n].cmd = "create_clock"}) = Len(d)


\* the source files a written project or script file names, in its order
SourceRefs(k, role, text) ==
    CASE k = "Anlogic" /\ role = "project"   -> text.verilog
      [] k = "OSFPGA" /\ role = "script"     -> text.design_files
      [] k = "Libero" /\ role = "project"    -> text.hdl_source
      [] k = "QuickLogic" /\ role = "script" -> <<text.verilog>>

\* the file of each adapter that names the sources
ListsSources(k, role) ==
    \/ k \in {"Anlogic", "Libero"} /\ role = "project"
    \/ k \in {"OSFPGA", "QuickLogic"} /\ role = "script"

\* C16: <build_name>.v is written and registered as a source before the
\* project / script emitter runs, and the source list of the emitted file is
\* the sources registered earlier, in registration order, followed by
\* <build_name>.v.
C16_VerilogRegisteredFirst ==
    build.pc > 0 =>
        \A i \in 1..Len(build.written) :
            ListsSources(kind, build.written[i].role) =>
               /\ \E j \in 1..(i - 1) : build.written[j].role = "hdl"
               /\ build.sources = AddSource(build.inp.sources,
                                            VerilogFile(build.inp.build_name))
               /\ SourceRefs(kind, build.written[i].role,
                             build.files[<<BuildDirPath, build.written[i].name>>])
                    = SourcePaths(build.inp.sources)
                         \o <<VerilogFile(build.inp.build_name)>>

\* C16 with the source list of the QuickLogic Makefile left out
C16_VerilogRegisteredFirstElsewhere ==
    build.pc > 0 =>
        \A i \in 1..Len(build.written) :
            ListsSources(kind, build.written[i].role) =>
               /\ \E j \in 1..(i - 1) : build.written[j].role = "hdl"
               /\ build.sources = AddSource(build.inp.sources,
                                            VerilogFile(build.inp.build_name))
               /\ kind # "QuickLogic" =>
                     SourceRefs(kind, build.written[i].role,
                                build.files[<<BuildDirPath, build.written[i].name>>])
                        = SourcePaths(build.inp.sources)
                             \o <<VerilogFile(build.inp.build_name)>>


\* the exception came from the environment (file system, platform), not from
\* a statement of the adapter
FromEnvironment(error) == error.type \in {"OSError", "FinalizeError"}

\* build() was called without run, with a device and pin attributes the
\* adapter handles
PlainBuild ==
    /\ build.pc > 0
    /\ ~build.inp.run
    /\ Recognized(kind, build.inp.device)
    /\ ~HasUnknownAttribute(build.inp.named_sc)

\* C17: a build() without run, on a recognized device, ends in Success with
\* the Verilog, constraint and script files all written, for an absolute and
\* for a relative build_dir alike; the only failures are those the file
\* system or the platform itself raises.
C17_BuildWithoutRunSucceeds ==
    (PlainBuild /\ Ended) =>
        \/ /\ build.status = "Success"
           /\ \A role \in FileRoles(kind) \cup {"hdl"} : WrittenRole(role)
        \/ /\ build.status = "Failure"
           /\ FromEnvironment(build.error)

\* C17 for an absolute build_dir, and for the adapters other than Libero
C17_BuildWithoutRunSucceedsAbsolute ==
    (PlainBuild /\ Ended /\ (build.inp.build_dir.abs \/ kind # "Libero")) =>
        \/ /\ build.status = "Success"
           /\ \A role \in FileRoles(kind) \cup {"hdl"} : WrittenRole(role)
        \/ /\ build.status = "Failure"
           /\ FromEnvironment(build.error)


====
